---------------------------- MODULE Spec2Model ----------------------------
(***************************************************************************)
(* Survey campaign image generation: prompt construction, the              *)
(* primary/fallback chain of image_generator.py and the older              *)
(* DALL-E / stock-photo chain of old_image_generation.py.                  *)
(*                                                                         *)
(* Python strings that the code inspects character by character (survey    *)
(* names, specialties, styles, filenames) are sequences of one-character   *)
(* strings.  A prompt is a sequence of tokens: every interpolated argument *)
(* contributes its characters, every literal stretch of the source text is *)
(* one token.  Status messages are TLA+ strings built with \o.             *)
(***************************************************************************)
EXTENDS Integers, Sequences, FiniteSets, TLC

VARIABLES
    client,            \* image_generator.client: "none", "genai.Client" or "GenerativeModel"
    GEMINI_AVAILABLE,  \* image_generator.GEMINI_AVAILABLE
    now,               \* the wall clock read by datetime.datetime.now(), in seconds
    pc,                \* position of the call in progress
    module,            \* which module's generate_survey_image is being called
    request,           \* the arguments of the call in progress
    primary,           \* what _try_new_gemini_api returned to generate_survey_image
    fallback,          \* what _generate_fallback_image returned to generate_survey_image
    primaryOutcome,    \* what happened in the primary attempt: <<outcome, str(e)>>
    fallbackOutcome,   \* what happened in the fallback attempt: <<outcome, str(e)>>
    result,            \* what the caller received from the last call
    propagated,        \* an exception escaped generate_survey_image
    remoteCalls,       \* invocations of the remote API during the call
    fallbackCalls,     \* invocations of the fallback renderer during the call
    written,           \* the files the call wrote: <<path, tier>>
    calls,             \* number of calls begun
    log,               \* one record per call that returned an image under a derived filename
    san_in,            \* survey name under sanitization
    san_out,           \* derived filename components so far
    p_args,            \* arguments of construct_image_prompt
    p_out              \* prompts / accents computed from p_args

orchVars == <<client, GEMINI_AVAILABLE, now, pc, module, request, primary,
              fallback, primaryOutcome, fallbackOutcome, result, propagated, remoteCalls, fallbackCalls, written, calls, log>>
sanVars == <<san_in, san_out>>
promptVars == <<p_args, p_out>>
vars == <<orchVars, sanVars, promptVars>>

\* Optional values: None is the empty sequence, a present value x is <<x>>
None == <<>>
Some(x) == <<x>>

(***************************************************************************)
(* Bounds                                                                  *)
(***************************************************************************)
MaxCalls == 2      \* calls of generate_survey_image in one process run
MaxTicks == 1      \* seconds the clock advances during the run
MaxLen == 3        \* length of the enumerated survey names

(***************************************************************************)
(* Characters and the str methods the code uses                            *)
(***************************************************************************)
UpperChars == <<"A", "B", "C", "D", "E", "F", "G", "H", "I", "J", "K", "L", "M",
                "N", "O", "P", "Q", "R", "S", "T", "U", "V", "W", "X", "Y", "Z">>
LowerChars == <<"a", "b", "c", "d", "e", "f", "g", "h", "i", "j", "k", "l", "m",
                "n", "o", "p", "q", "r", "s", "t", "u", "v", "w", "x", "y", "z">>
DigitChars == <<"0", "1", "2", "3", "4", "5", "6", "7", "8", "9">>
Whitespace == {" ", "\t", "\n", "\r"}

Range(s) == {s[i] : i \in 1..Len(s)}

\* str.isalnum() of one character
isalnum(c) == c \in Range(UpperChars) \cup Range(LowerChars) \cup Range(DigitChars)

\* str.lower()
LowerChar(c) ==
    IF c \in Range(UpperChars)
    THEN LowerChars[CHOOSE i \in 1..Len(UpperChars) : UpperChars[i] = c]
    ELSE c
lower(s) == [i \in 1..Len(s) |-> LowerChar(s[i])]

\* str.rstrip(): drop trailing whitespace
RECURSIVE rstrip(_)
rstrip(s) ==
    IF s # <<>> /\ s[Len(s)] \in Whitespace THEN rstrip(SubSeq(s, 1, Len(s) - 1)) ELSE s

\* str.lstrip() and str.strip()
RECURSIVE lstrip(_)
lstrip(s) == IF s # <<>> /\ Head(s) \in Whitespace THEN lstrip(Tail(s)) ELSE s
strip(s) == rstrip(lstrip(s))

\* str.replace(a, b) for one-character a and b
replace(s, a, b) == [i \in 1..Len(s) |-> IF s[i] = a THEN b ELSE s[i]]

\* sub in s
Contains(s, sub) ==
    \E i \in 0..(Len(s) - Len(sub)) : SubSeq(s, i + 1, i + Len(sub)) = sub
StartsWith(s, pre) == Len(pre) <= Len(s) /\ SubSeq(s, 1, Len(pre)) = pre
EndsWith(s, suf) == Len(suf) <= Len(s) /\ SubSeq(s, Len(s) - Len(suf) + 1, Len(s)) = suf

(***************************************************************************)
(* Filename derivation                                                     *)
(***************************************************************************)
\* "".join(c for c in survey_name if c.isalnum() or c in (' ', '-', '_')).rstrip()
safe_name(survey_name) ==
    rstrip(SelectSeq(survey_name, LAMBDA c : isalnum(c) \/ c \in {" ", "-", "_"}))

\* datetime.datetime.now().strftime("%Y%m%d_%H%M%S"); the run stays within one day
TwoDigits(n) == <<DigitChars[(n \div 10) + 1], DigitChars[(n % 10) + 1]>>
strftime(t) ==
    <<"2", "0", "2", "5", "0", "1", "0", "1", "_">>
        \o TwoDigits((t \div 3600) % 24) \o TwoDigits((t \div 60) % 60) \o TwoDigits(t % 60)

DotPng == <<".", "p", "n", "g">>
SurveyImagePrefix == <<"s", "u", "r", "v", "e", "y", "_", "i", "m", "a", "g", "e", "_">>
FallbackPrefix == <<"f", "a", "l", "l", "b", "a", "c", "k", "_">>
StaticImages == <<"s", "t", "a", "t", "i", "c", "/", "i", "m", "a", "g", "e", "s", "/">>
OldSurveyPrefix == <<"s", "u", "r", "v", "e", "y", "_">>

\* the {safe_name.replace(' ', '_')} component of image_generator's filenames
primary_component(survey_name) == replace(safe_name(survey_name), " ", "_")
fallback_component(survey_name) == replace(safe_name(survey_name), " ", "_")
\* the {safe_name} component of old_image_generation's filenames
old_primary_component(survey_name) == safe_name(survey_name)
old_fallback_component(survey_name) == safe_name(survey_name)

\* f"survey_image_{safe_name.replace(' ', '_')}_{timestamp}.png"
primary_filename(survey_name, t) ==
    SurveyImagePrefix \o primary_component(survey_name) \o <<"_">> \o strftime(t) \o DotPng
\* f"fallback_{safe_name.replace(' ', '_')}_{timestamp}.png"
fallback_filename(survey_name, t) ==
    FallbackPrefix \o fallback_component(survey_name) \o <<"_">> \o strftime(t) \o DotPng
\* f"static/images/survey_{safe_name}_{timestamp}.png"
old_primary_filename(survey_name, t) ==
    StaticImages \o OldSurveyPrefix \o old_primary_component(survey_name)
        \o <<"_">> \o strftime(t) \o DotPng
\* f"static/images/fallback_{safe_name}_{timestamp}.png"
old_fallback_filename(survey_name, t) ==
    StaticImages \o FallbackPrefix \o old_fallback_component(survey_name)
        \o <<"_">> \o strftime(t) \o DotPng

(***************************************************************************)
(* Specialty and style keys, as the source spells them                     *)
(***************************************************************************)
K_cardiology == <<"c", "a", "r", "d", "i", "o", "l", "o", "g", "y">>
K_oncology == <<"o", "n", "c", "o", "l", "o", "g", "y">>
K_primary_care == <<"p", "r", "i", "m", "a", "r", "y", "_", "c", "a", "r", "e">>
K_neurology == <<"n", "e", "u", "r", "o", "l", "o", "g", "y">>
K_pediatrics == <<"p", "e", "d", "i", "a", "t", "r", "i", "c", "s">>
K_psychiatry == <<"p", "s", "y", "c", "h", "i", "a", "t", "r", "y">>
K_emergency_medicine == <<"e", "m", "e", "r", "g", "e", "n", "c", "y", "_", "m", "e", "d", "i", "c", "i", "n", "e">>
K_surgery == <<"s", "u", "r", "g", "e", "r", "y">>
K_radiology == <<"r", "a", "d", "i", "o", "l", "o", "g", "y">>
K_pharmacy == <<"p", "h", "a", "r", "m", "a", "c", "y">>
K_general == <<"g", "e", "n", "e", "r", "a", "l">>
S_professional == <<"p", "r", "o", "f", "e", "s", "s", "i", "o", "n", "a", "l">>
S_infographic == <<"i", "n", "f", "o", "g", "r", "a", "p", "h", "i", "c">>
S_medical_illustration == <<"m", "e", "d", "i", "c", "a", "l", "_", "i", "l", "l", "u", "s", "t", "r", "a", "t", "i", "o", "n">>
S_clean_modern == <<"c", "l", "e", "a", "n", "_", "m", "o", "d", "e", "r", "n">>
\* the literal text {medical_specialty} of a string that is not an f-string
Placeholder == <<"{", "m", "e", "d", "i", "c", "a", "l", "_", "s", "p", "e", "c", "i", "a", "l", "t", "y", "}">>

\* dict.get(key, default) on a dict given as a sequence of <<key, value>> pairs
DictGet(d, key, default) ==
    IF \E i \in 1..Len(d) : d[i][1] = key
    THEN d[CHOOSE i \in 1..Len(d) : d[i][1] = key][2]
    ELSE default
DictKeys(d) == {d[i][1] : i \in 1..Len(d)}

\* specialty_elements of construct_image_prompt
specialty_elements == <<
    <<K_cardiology, <<"subtle heart imagery, ECG patterns, stethoscope elements, cardiovascular icons">> >>,
    <<K_oncology, <<"cellular imagery, research lab elements, microscope motifs, hope and healing themes">> >>,
    <<K_primary_care, <<"diverse patient care imagery, family medicine elements, community health themes">> >>,
    <<K_neurology, <<"brain imagery, neural networks, neurological examination tools">> >>,
    <<K_pediatrics, <<"child-friendly colors, pediatric care elements, family-centered themes">> >>,
    <<K_psychiatry, <<"mental health awareness imagery, brain and mind connection themes">> >>,
    <<K_emergency_medicine, <<"urgent care elements, emergency room themes, critical care imagery">> >>,
    <<K_surgery, <<"surgical precision imagery, OR themes, medical precision elements">> >>,
    <<K_radiology, <<"imaging equipment, scan imagery, diagnostic themes">> >>,
    <<K_pharmacy, <<"pharmaceutical elements, medication management themes">> >>,
    <<K_general, <<"universal medical symbols, healthcare collaboration imagery, medical professionalism">> >>
>>


\* specialty_visual = specialty_elements.get(medical_specialty.lower(), specialty_elements["general"])
specialty_visual_no_lower(medical_specialty) ==
    DictGet(specialty_elements, medical_specialty,
            DictGet(specialty_elements, K_general, <<>>))
specialty_visual(medical_specialty) ==
    DictGet(specialty_elements, lower(medical_specialty),
            DictGet(specialty_elements, K_general, <<>>))

\* style_instructions of construct_image_prompt: plain strings, so the text
\* {medical_specialty} in them is literal
style_instructions == <<
    <<S_professional,
      <<"\nPROFESSIONAL STYLE:\n- Clean, corporate medical aesthetic\n- Subtle gradients and professional typography\n- Medical professionals in business attire\n- Hospital or clinic environment backgrounds\n- Sophisticated color palette with medical blues and whites\n- Icons and symbols MUST BE minimal and elegant", "\n">> >>,
    <<S_infographic,
      <<"\nINFOGRAPHIC STYLE:\n- Data visualization elements (charts, graphs, statistics) related to ">>
        \o Placeholder
        \o <<"\n- Clear information hierarchy\n- Iconography representing survey benefits in a medical context\n- Step-by-step visual flow\n- Bold, readable typography\n- Engaging data presentation elements", "\n">> >>,
    <<S_medical_illustration,
      <<"\nMEDICAL ILLUSTRATION STYLE:\n- Detailed medical diagrams and anatomical elements specific to ">>
        \o Placeholder
        \o <<"\n- Scientific accuracy in medical representations\n- Educational poster aesthetic\n- Medical textbook illustration quality\n- Precise, technical visual elements\n- Professional medical publication style", "\n">> >>,
    <<S_clean_modern,
      <<"\nCLEAN MODERN STYLE:\n- Minimalist design with lots of white space\n- Modern typography and clean lines\n- Subtle shadows and depth\n- Contemporary medical technology elements related to ">>
        \o Placeholder
        \o <<"\n- Fresh, approachable color palette\n- Modern healthcare facility aesthetics", "\n">> >>
>>

\* style_instructions.get(image_style.lower(), style_instructions["professional"])
style_block(image_style) ==
    DictGet(style_instructions, lower(image_style),
            DictGet(style_instructions, S_professional, <<>>))

\* the f-string base_prompt starts as
header_block(survey_name, medical_specialty, tone, image_style) ==
    <<"\n", "Create a high-quality, professional medical survey campaign image EXCLUSIVELY for healthcare professionals, focusing on ">>
        \o medical_specialty
        \o <<" specialty.\n\nCAMPAIGN DETAILS:\n- Survey Focus: ">>
        \o survey_name
        \o <<"\n- Target Specialty: ">>
        \o medical_specialty
        \o <<" (PRIORITIZE MEDICAL RELEVANCE)\n- Visual Tone: ">>
        \o tone
        \o <<"\n- Style: ">>
        \o image_style
        \o <<" (MANDATORY)\n\nVISUAL REQUIREMENTS:\n- Dimensions: 16:9 landscape format, suitable for email headers and web banners\n- Resolution: High-resolution, crisp and clear\n- Color scheme: Professional medical colors (blues, teals, whites, subtle accent colors)\n- MUST INCLUDE medical imagery specific to ">>
        \o medical_specialty
        \o <<"\n- Clean, uncluttered design with plenty of white space", "\n">>

\* base_prompt += f"\n- Specialty Elements: MANDATORY INCLUSION of {specialty_visual}"
specialty_line(medical_specialty) ==
    <<"\n- Specialty Elements: MANDATORY INCLUSION of ">> \o specialty_visual(medical_specialty)

\* the two branches of  if include_text:
HeadlineInstruction == "\n\nTEXT OVERLAY REQUIREMENTS:\n- Main headline: \""
SubtitleInstruction == "\" (prominent, readable typography)\n- Subtitle: \"Healthcare Professional Survey\" or \"Medical Research Study\"\n- Call-to-action element: \"Share Your Expertise\" or \"Join the Research\"\n- Text must be easily readable against the background\n- Use professional, medical-appropriate fonts\n- Ensure text contrast meets accessibility standards"
NoTextDirective == "\n- Create image without text overlay (background/template only)"
text_block(survey_name, include_text) ==
    IF include_text
    THEN <<HeadlineInstruction>> \o survey_name \o <<SubtitleInstruction, "\n">>
    ELSE <<NoTextDirective>>

\* base_prompt += """...""": a plain string, {medical_specialty} stays literal
CompositionHead == "\n\nCOMPOSITION GUIDELINES:\n- Center-weighted composition with clear focal point\n- Balance between imagery and negative space\n- Professional lighting and color temperature\n- Avoid overly complex or busy designs\n- Ensure scalability from large banners to small email thumbnails\n- Create a sense of trust, expertise, and medical authority\n- Make it appealing to busy healthcare professionals\n- Include SUBTLE ELEMENTS that suggest collaboration and knowledge sharing in a "
TechnicalSpecs == " context\n\nTECHNICAL SPECIFICATIONS:\n- High contrast for readability\n- Professional color grading\n- Sharp, crisp details\n- Suitable for both digital and print applications\n- Optimized for professional medical communications"
ClosingHead == "\n\nDO NOT generate generic or non-medical images. Focus SOLELY on "
ClosingTail == "-related medical imagery."
composition_footer == <<CompositionHead>> \o Placeholder \o <<TechnicalSpecs>>
closing_directive == <<ClosingHead>> \o Placeholder \o <<ClosingTail, "\n">>

\* image_generator.construct_image_prompt
construct_image_prompt(survey_name, medical_specialty, tone, image_style, include_text) ==
    strip(header_block(survey_name, medical_specialty, tone, image_style)
          \o specialty_line(medical_specialty)
          \o style_block(image_style)
          \o text_block(survey_name, include_text)
          \o composition_footer
          \o closing_directive)

\* str.title(): a cased character starts a word when the one before it is not cased
UpperChar(c) ==
    IF c \in Range(LowerChars)
    THEN UpperChars[CHOOSE i \in 1..Len(LowerChars) : LowerChars[i] = c]
    ELSE c
IsCased(c) == c \in Range(UpperChars) \cup Range(LowerChars)
title(s) ==
    [i \in 1..Len(s) |->
        IF i > 1 /\ IsCased(s[i - 1]) THEN LowerChar(s[i]) ELSE UpperChar(s[i])]

\* old_image_generation.construct_image_prompt: include_text is not read
old_construct_image_prompt(survey_name, medical_specialty, tone, image_style, include_text) ==
    strip(<<"\n", "Create a high-quality medical survey email banner image:\n\n- Title: ">>
          \o survey_name
          \o <<"\n- Specialty: ">> \o title(medical_specialty)
          \o <<"\n- Tone: ">> \o title(tone)
          \o <<"\n- Style: ">> \o title(image_style)
          \o <<"\n\nVISUALS:\n- Aspect Ratio: 16:9 (banner style)\n- Resolution: 1024x576\n- Professional, clean medical look.\n\nInclude subtle relevant visuals for ">>
          \o medical_specialty
          \o <<".", "\n">>)

\* the if/elif chain of _generate_fallback_image: the label drawn and the shape
fallback_accent(medical_specialty) ==
    IF lower(medical_specialty) = K_cardiology THEN <<"Heart & ECG", "ellipse">>
    ELSE IF lower(medical_specialty) = K_oncology THEN <<"Cells & Microscope", "ellipse">>
    ELSE IF lower(medical_specialty) = K_primary_care THEN <<"Patient Care", "rectangle">>
    ELSE IF lower(medical_specialty) = K_neurology THEN <<"Brain & Neurons", "ellipse">>
    ELSE IF lower(medical_specialty) = K_pharmacy THEN <<"Medications", "rectangle">>
    ELSE IF lower(medical_specialty) = K_pediatrics THEN <<"Child Care", "ellipse">>
    ELSE IF lower(medical_specialty) = K_psychiatry THEN <<"Mental Health", "polygon">>
    ELSE IF lower(medical_specialty) = K_surgery THEN <<"Surgical Tools", "line">>
    ELSE IF lower(medical_specialty) = K_emergency_medicine THEN <<"Urgent Care", "rectangle">>
    ELSE IF lower(medical_specialty) = K_radiology THEN <<"Scans & Imaging", "rectangle">>
    ELSE <<"General Medical", "none">>

(***************************************************************************)
(* Inputs                                                                  *)
(***************************************************************************)
RECURSIVE SeqsUpTo(_, _)
SeqsUpTo(S, n) ==
    IF n = 0 THEN {<<>>}
    ELSE LET shorter == SeqsUpTo(S, n - 1)
         IN  shorter \cup {Append(s, c) : s \in shorter, c \in S}

HeartStudy == <<"H", "e", "a", "r", "t", " ", "S", "t", "u", "d", "y", ":", " ", "2", "0", "2", "5", "!">>
SanAlphabet == {"a", "7", " ", "-", "_", "!", "\t"}
SurveyNames == SeqsUpTo(SanAlphabet, MaxLen) \cup {HeartStudy}

\* survey names of the calls: two of them sanitize to the same component
CallNames == {<<"A">>, <<"A", "!">>, <<"a", " ", "b">>}
CallSpecialties == {<<"C", "a", "r", "d", "i", "o", "l", "o", "g", "y">>}
TemplatePng == <<"t", ".", "p", "n", "g">>
AbsolutePng == <<"/", "t", ".", "p", "n", "g">>
SaveFilenames == {None, Some(<<>>), Some(TemplatePng), Some(AbsolutePng)}
\* str(e) of the exceptions the collaborators raise; an exception built without
\* arguments (MemoryError(), a bare raise of a class) has the empty description
ErrorsOf(outcome) ==
    IF outcome \in {"raises", "draw_fails"} THEN {"", "quota exceeded"}
    ELSE IF outcome \in {"open_fails", "download_fails", "fetch_fails"}
    THEN {"cannot identify image file"}
    ELSE IF outcome = "save_fails" THEN {"No space left on device"}
    ELSE IF outcome = "encode_fails" THEN {"cannot write mode CMYK as PNG"}
    ELSE {""}

PromptNames == {<<"A">>, <<"Q", " ", "1">>}
PromptSpecialties ==
    DictKeys(specialty_elements)
        \cup {<<"C", "a", "r", "d", "i", "o", "l", "o", "g", "y">>,
              <<"C", "A", "R", "D", "I", "O", "L", "O", "G", "Y">>,
              <<"E", "m", "e", "r", "g", "e", "n", "c", "y", "_", "M", "e", "d", "i", "c", "i", "n", "e">>,
              <<"d", "e", "r", "m", "a", "t", "o", "l", "o", "g", "y">>,
              <<"p", "s", "y", "c", "h", "i", "a", "t", "r", "i", "s", "t">>,
              <<"s", "u", "r", "g", "e", "r", "y", " ">>,
              <<>>}
PromptStyles ==
    DictKeys(style_instructions)
        \cup {<<"I", "n", "f", "o", "g", "r", "a", "p", "h", "i", "c">>,
              <<"w", "a", "t", "e", "r", "c", "o", "l", "o", "r">>}
PromptTones == {S_professional}

(***************************************************************************)
(* Sanitization on its own: every generator derives its component from     *)
(* the same survey name                                                    *)
(***************************************************************************)
SanInit ==
    /\ san_in \in SurveyNames
    /\ san_out = [primary |-> None, fallback |-> None,
                  old_primary |-> None, old_fallback |-> None]

SanIdle == san_in = <<>> /\ san_out = [primary |-> None, fallback |-> None,
                                       old_primary |-> None, old_fallback |-> None]

DerivePrimary ==
    /\ san_out.primary = None
    /\ san_out' = [san_out EXCEPT !.primary = Some(primary_component(san_in))]
    /\ UNCHANGED san_in

DeriveFallback ==
    /\ san_out.fallback = None
    /\ san_out' = [san_out EXCEPT !.fallback = Some(fallback_component(san_in))]
    /\ UNCHANGED san_in

DeriveOldPrimary ==
    /\ san_out.old_primary = None
    /\ san_out' = [san_out EXCEPT !.old_primary = Some(old_primary_component(san_in))]
    /\ UNCHANGED san_in

DeriveOldFallback ==
    /\ san_out.old_fallback = None
    /\ san_out' = [san_out EXCEPT !.old_fallback = Some(old_fallback_component(san_in))]
    /\ UNCHANGED san_in

(***************************************************************************)
(* Prompt construction and accent selection on their own                   *)
(***************************************************************************)
PromptInit ==
    /\ p_args \in [survey_name : PromptNames, medical_specialty : PromptSpecialties,
                   tone : PromptTones, image_style : PromptStyles,
                   include_text : BOOLEAN]
    /\ p_out = [done |-> {}, new |-> <<>>, old |-> <<>>, accent |-> <<>>]

PromptIdle ==
    /\ p_args = [survey_name |-> <<>>, medical_specialty |-> <<>>, tone |-> <<>>,
                 image_style |-> <<>>, include_text |-> TRUE]
    /\ p_out = [done |-> {}, new |-> <<>>, old |-> <<>>, accent |-> <<>>]

BuildPrompt ==
    /\ "new" \notin p_out.done
    /\ p_out' = [p_out EXCEPT
                   !.done = @ \cup {"new"},
                   !.new = construct_image_prompt(p_args.survey_name, p_args.medical_specialty,
                               p_args.tone, p_args.image_style, p_args.include_text)]
    /\ UNCHANGED p_args

OldBuildPrompt ==
    /\ "old" \notin p_out.done
    /\ p_out' = [p_out EXCEPT
                   !.done = @ \cup {"old"},
                   !.old = old_construct_image_prompt(p_args.survey_name,
                               p_args.medical_specialty, p_args.tone, p_args.image_style,
                               p_args.include_text)]
    /\ UNCHANGED p_args

DrawAccent ==
    /\ "accent" \notin p_out.done
    /\ p_out' = [p_out EXCEPT
                   !.done = @ \cup {"accent"},
                   !.accent = fallback_accent(p_args.medical_specialty)]
    /\ UNCHANGED p_args

(***************************************************************************)
(* Results.  A returned tuple is <<image, filename, base64, message>>; an  *)
(* exception leaving a function is <<"raise", str(e)>>.                    *)
(***************************************************************************)
Raise(err) == <<"raise", err>>
IsRaise(r) == Len(r) = 2
\* if save_filename:
Truthy(save_filename) == save_filename # None /\ save_filename[1] # <<>>
\* base64.b64encode of the PNG bytes of an image
b64encode(img) == [png_of |-> img]

GeminiSuccess == "AI-generated image created successfully"
GeminiNoImage == "No image generated by Gemini API"
FallbackSuccess == "Professional fallback image generated successfully."
OldSuccess == "Generated successfully"
OldFallbackUsed == "Fallback image used"

\* except Exception as e: return None, None, None, f"Gemini API error: {str(e)}"
primary_except_reraise(err) == Raise(err)
primary_except(err) == <<None, None, None, "Gemini API error: " \o err>>

\* except Exception as e: return None, None, None, str(e)
fallback_except_reraise(err) == Raise(err)
fallback_except(err) == <<None, None, None, err>>

PrimaryOutcomes == {"raises", "no_image", "open_fails", "save_fails", "encode_fails", "ok"}
FallbackOutcomes == {"draw_fails", "save_fails", "encode_fails", "ok"}

\* os.getcwd() of the process
Cwd == <<"/", "a", "p", "p">>
\* os.path.join(a, b): an absolute b discards a
os_path_join(a, b) ==
    IF b # <<>> /\ Head(b) = "/" THEN b
    ELSE IF a = <<>> \/ a[Len(a)] = "/" THEN a \o b
    ELSE a \o <<"/">> \o b
\* output_dir = os.path.join(os.getcwd(), 'static', 'images')
output_dir ==
    os_path_join(os_path_join(Cwd, <<"s", "t", "a", "t", "i", "c">>),
                 <<"i", "m", "a", "g", "e", "s">>)
\* full_image_path = os.path.join(output_dir, image_filename)
full_image_path(image_filename) == os_path_join(output_dir, image_filename)
\* the file a path relative to the working directory names
relative_to_cwd(filename) == os_path_join(Cwd, filename)

\* the name _try_new_gemini_api saves under
primary_target(survey_name, save_filename, t) ==
    IF Truthy(save_filename) THEN save_filename[1] ELSE primary_filename(survey_name, t)
\* the name _generate_fallback_image saves under
fallback_target_minutes(survey_name, save_filename, t) ==
    IF Truthy(save_filename) THEN save_filename[1]
    ELSE fallback_filename(survey_name, t - (t % 60))
fallback_target(survey_name, save_filename, t) ==
    IF Truthy(save_filename) THEN save_filename[1] ELSE fallback_filename(survey_name, t)

\* _try_new_gemini_api: what it returns, the file it wrote, the remote calls it made.
\* With the older package bound to client, types is unbound and evaluating the
\* arguments of generate_content raises NameError before the call is made.
try_new_gemini_api(cl, outcome, err, survey_name, save_filename, t, img) ==
    LET fn == primary_target(survey_name, save_filename, t) IN
    IF cl = "none"
    THEN [ret |-> primary_except("Gemini client is not initialized"), wrote |-> None,
          remote |-> 0, happened |-> <<"raises", "Gemini client is not initialized">>]
    ELSE IF cl = "GenerativeModel"
    THEN [ret |-> primary_except("name 'types' is not defined"), wrote |-> None,
          remote |-> 0, happened |-> <<"raises", "name 'types' is not defined">>]
    ELSE IF outcome = "ok"
    THEN [ret |-> <<Some(img), Some(fn), Some(b64encode(img)), GeminiSuccess>>,
          wrote |-> Some(full_image_path(fn)), remote |-> 1, happened |-> <<"ok", "">>]
    ELSE IF outcome = "no_image"
    THEN [ret |-> <<None, None, None, GeminiNoImage>>, wrote |-> None, remote |-> 1,
          happened |-> <<"no_image", "">>]
    ELSE IF outcome = "encode_fails"
    THEN [ret |-> primary_except(err), wrote |-> Some(full_image_path(fn)), remote |-> 1,
          happened |-> <<outcome, err>>]
    ELSE [ret |-> primary_except(err), wrote |-> None, remote |-> 1,
          happened |-> <<outcome, err>>]

\* _generate_fallback_image: what it returns and the file it wrote
generate_fallback_image(outcome, err, survey_name, save_filename, t, img) ==
    LET fn == fallback_target(survey_name, save_filename, t) IN
    IF outcome = "ok"
    THEN [ret |-> <<Some(img), Some(fn), Some(b64encode(img)), FallbackSuccess>>,
          wrote |-> Some(full_image_path(fn))]
    ELSE IF outcome = "encode_fails"
    THEN [ret |-> fallback_except(err), wrote |-> Some(full_image_path(fn))]
    ELSE [ret |-> fallback_except(err), wrote |-> None]

\* if GEMINI_AVAILABLE and client is not None:
remote_usable_always(avail, cl) == TRUE
remote_usable(avail, cl) == avail /\ cl # "none"

\* if pil_image is not None: return pil_image, image_filename, image_base64, image_message
primary_accepted_never(r) == FALSE
primary_accepted(r) == r[1] # None

\* pil_image.save(full_image_path): the file is there at that path
WriteFile(ws, wrote, tier) ==
    IF wrote = None THEN ws ELSE Append(ws, <<wrote[1], tier>>)

NotRun == <<"none", "">>
NoRequest == [survey_name |-> <<>>, medical_specialty |-> <<>>, tone |-> <<>>,
              image_style |-> <<>>, include_text |-> TRUE, save_filename |-> None]

Returned(r, mod, tier, derived, component, t) ==
    IF r[1] = None \/ ~derived THEN log
    ELSE Append(log, [module |-> mod, tier |-> tier, component |-> component,
                      timestamp |-> strftime(t), filename |-> r[2][1]])

(***************************************************************************)
(* The process                                                             *)
(***************************************************************************)
OrchInit ==
    /\ \E c \in {<<"genai.Client", TRUE>>, <<"GenerativeModel", TRUE>>, <<"none", FALSE>>} :
            client = c[1] /\ GEMINI_AVAILABLE = c[2]
    /\ now = 58
    /\ pc = "idle"
    /\ module = "image_generator"
    /\ request = NoRequest
    /\ primary = <<>>
    /\ fallback = <<>>
    /\ primaryOutcome = NotRun
    /\ fallbackOutcome = NotRun
    /\ result = <<>>
    /\ propagated = FALSE
    /\ remoteCalls = 0
    /\ fallbackCalls = 0
    /\ written = <<>>
    /\ calls = 0
    /\ log = <<>>

\* the clock advances by one second
Tick ==
    /\ now < 58 + MaxTicks
    /\ now' = now + 1
    /\ UNCHANGED <<client, GEMINI_AVAILABLE, pc, module, request, primary, fallback,
                   primaryOutcome, fallbackOutcome, result, propagated, remoteCalls, fallbackCalls, written, calls, log>>

\* image_generator.generate_survey_image, up to the test of the client
Call(survey_name, medical_specialty, save_filename) ==
    /\ pc \in {"idle", "done"}
    /\ calls < MaxCalls
    /\ calls' = calls + 1
    /\ module' = "image_generator"
    /\ request' = [survey_name |-> survey_name, medical_specialty |-> medical_specialty,
                   tone |-> S_professional, image_style |-> S_professional,
                   include_text |-> TRUE, save_filename |-> save_filename]
    /\ primary' = <<>>
    /\ fallback' = <<>>
    /\ primaryOutcome' = NotRun
    /\ fallbackOutcome' = NotRun
    /\ result' = <<>>
    /\ propagated' = FALSE
    /\ remoteCalls' = 0
    /\ fallbackCalls' = 0
    /\ pc' = IF remote_usable(GEMINI_AVAILABLE, client) THEN "primary" ELSE "fallback"
    /\ written' = <<>>
    /\ UNCHANGED <<client, GEMINI_AVAILABLE, now, log>>

\* generate_survey_image calls _try_new_gemini_api and returns its tuple when it
\* carries an image
TryNewGeminiApi(outcome, err) ==
    /\ pc = "primary"
    /\ LET img == [tier |-> "gemini"]
           r == try_new_gemini_api(client, outcome, err, request.survey_name,
                                   request.save_filename, now, img)
       IN  /\ remoteCalls' = remoteCalls + r.remote
           /\ written' = WriteFile(written, r.wrote, "primary")
           /\ primary' = r.ret
           /\ primaryOutcome' = r.happened
           /\ IF IsRaise(r.ret)
              THEN /\ propagated' = TRUE
                   /\ pc' = "done"
                   /\ UNCHANGED <<result, log>>
              ELSE IF primary_accepted(r.ret)
              THEN /\ result' = r.ret
                   /\ pc' = "done"
                   /\ log' = Returned(r.ret, module, "primary",
                                      ~Truthy(request.save_filename),
                                      primary_component(request.survey_name), now)
                   /\ UNCHANGED propagated
              ELSE /\ pc' = "fallback"
                   /\ UNCHANGED <<result, log, propagated>>
    /\ UNCHANGED <<client, GEMINI_AVAILABLE, now, module, request, fallback,
                   fallbackOutcome, fallbackCalls, calls>>

\* generate_survey_image returns what _generate_fallback_image returns
GenerateFallbackImage(outcome, err) ==
    /\ pc = "fallback"
    /\ LET img == [tier |-> "fallback"]
           r == generate_fallback_image(outcome, err, request.survey_name,
                                        request.save_filename, now, img)
       IN  /\ fallbackCalls' = fallbackCalls + 1
           /\ written' = WriteFile(written, r.wrote, "fallback")
           /\ fallback' = r.ret
           /\ fallbackOutcome' = <<outcome, IF outcome = "ok" THEN "" ELSE err>>
           /\ IF IsRaise(r.ret)
              THEN /\ propagated' = TRUE
                   /\ UNCHANGED <<result, log>>
              ELSE /\ result' = r.ret
                   /\ log' = Returned(r.ret, module, "fallback",
                                      ~Truthy(request.save_filename),
                                      fallback_component(request.survey_name), now)
                   /\ UNCHANGED propagated
    /\ pc' = "done"
    /\ UNCHANGED <<client, GEMINI_AVAILABLE, now, module, request, primary,
                   primaryOutcome, remoteCalls, calls>>

OldPrimaryOutcomes == {"raises", "download_fails", "save_fails", "encode_fails", "ok"}
OldFallbackOutcomes == {"fetch_fails", "save_fails", "encode_fails", "ok"}

\* old_image_generation.generate_survey_image, the try block: the DALL-E request,
\* the download, the save and the encoding
old_primary_attempt(outcome, err, survey_name, t) ==
    LET fn == old_primary_filename(survey_name, t)
        img == [tier |-> "dalle"]
    IN  IF outcome = "ok"
        THEN [ret |-> <<Some(img), Some(fn), Some(b64encode(img)), OldSuccess>>,
              wrote |-> Some(relative_to_cwd(fn))]
        ELSE IF outcome = "encode_fails"
        THEN [ret |-> Raise(err), wrote |-> Some(relative_to_cwd(fn))]
        ELSE [ret |-> Raise(err), wrote |-> None]

\* old_image_generation.generate_survey_image, the handler of the try block: the
\* stock photo of the specialty; e is the exception of the try block
old_fallback_attempt(outcome, e, survey_name, t) ==
    LET fn == old_fallback_filename(survey_name, t)
        img == [tier |-> "stock"]
    IN  IF outcome = "ok"
        THEN [ret |-> <<Some(img), Some(fn), Some(b64encode(img)), OldFallbackUsed>>,
              wrote |-> Some(relative_to_cwd(fn))]
        ELSE IF outcome = "encode_fails"
        THEN [ret |-> <<None, None, None, "Image generation failed: " \o e>>,
              wrote |-> Some(relative_to_cwd(fn))]
        ELSE [ret |-> <<None, None, None, "Image generation failed: " \o e>>,
              wrote |-> None]

\* a call of old_image_generation.generate_survey_image begins
OldCall(survey_name, medical_specialty) ==
    /\ pc \in {"idle", "done"}
    /\ calls < MaxCalls
    /\ calls' = calls + 1
    /\ module' = "old_image_generation"
    /\ request' = [survey_name |-> survey_name, medical_specialty |-> medical_specialty,
                   tone |-> S_professional, image_style |-> S_professional,
                   include_text |-> TRUE, save_filename |-> None]
    /\ primary' = <<>>
    /\ fallback' = <<>>
    /\ primaryOutcome' = NotRun
    /\ fallbackOutcome' = NotRun
    /\ result' = <<>>
    /\ propagated' = FALSE
    /\ remoteCalls' = 0
    /\ fallbackCalls' = 0
    /\ pc' = "old_primary"
    /\ written' = <<>>
    /\ UNCHANGED <<client, GEMINI_AVAILABLE, now, log>>

\* the try block runs to its return or to an exception
OldPrimary(outcome, err) ==
    /\ pc = "old_primary"
    /\ LET r == old_primary_attempt(outcome, err, request.survey_name, now)
       IN  /\ remoteCalls' = remoteCalls + 1
           /\ written' = WriteFile(written, r.wrote, "primary")
           /\ primary' = r.ret
           /\ primaryOutcome' = <<outcome, IF outcome = "ok" THEN "" ELSE err>>
           /\ IF IsRaise(r.ret)
              THEN /\ pc' = "old_fallback"
                   /\ UNCHANGED <<result, log>>
              ELSE /\ result' = r.ret
                   /\ pc' = "done"
                   /\ log' = Returned(r.ret, module, "primary", TRUE,
                                      old_primary_component(request.survey_name), now)
    /\ UNCHANGED <<client, GEMINI_AVAILABLE, now, module, request, fallback,
                   fallbackOutcome, propagated, fallbackCalls, calls>>

\* the handler runs to its return; fallback_error is logged only
OldFallback(outcome, err) ==
    /\ pc = "old_fallback"
    /\ LET r == old_fallback_attempt(outcome, primary[2], request.survey_name, now)
       IN  /\ fallbackCalls' = fallbackCalls + 1
           /\ written' = WriteFile(written, r.wrote, "fallback")
           /\ fallback' = r.ret
           /\ fallbackOutcome' = <<outcome, IF outcome = "ok" THEN "" ELSE err>>
           /\ result' = r.ret
           /\ log' = Returned(r.ret, module, "fallback", TRUE,
                              old_fallback_component(request.survey_name), now)
    /\ pc' = "done"
    /\ UNCHANGED <<client, GEMINI_AVAILABLE, now, module, request, primary,
                   primaryOutcome, propagated, remoteCalls, calls>>

Init == OrchInit /\ SanIdle /\ PromptIdle

Next ==
    \/ /\ \E survey_name \in CallNames, medical_specialty \in CallSpecialties,
             save_filename \in SaveFilenames :
            Call(survey_name, medical_specialty, save_filename)
       /\ UNCHANGED <<sanVars, promptVars>>
    \/ /\ \E outcome \in PrimaryOutcomes : \E err \in ErrorsOf(outcome) :
            TryNewGeminiApi(outcome, err)
       /\ UNCHANGED <<sanVars, promptVars>>
    \/ /\ \E outcome \in FallbackOutcomes : \E err \in ErrorsOf(outcome) :
            GenerateFallbackImage(outcome, err)
       /\ UNCHANGED <<sanVars, promptVars>>
    \/ /\ \E survey_name \in CallNames, medical_specialty \in CallSpecialties :
            OldCall(survey_name, medical_specialty)
       /\ UNCHANGED <<sanVars, promptVars>>
    \/ /\ \E outcome \in OldPrimaryOutcomes : \E err \in ErrorsOf(outcome) :
            OldPrimary(outcome, err)
       /\ UNCHANGED <<sanVars, promptVars>>
    \/ /\ \E outcome \in OldFallbackOutcomes : \E err \in ErrorsOf(outcome) :
            OldFallback(outcome, err)
       /\ UNCHANGED <<sanVars, promptVars>>
    \/ /\ Tick
       /\ UNCHANGED <<sanVars, promptVars>>

Spec == Init /\ [][Next]_vars

OrchIdle ==
    /\ client = "none" /\ GEMINI_AVAILABLE = FALSE /\ now = 58 /\ pc = "idle"
    /\ module = "image_generator" /\ request = NoRequest
    /\ primary = <<>> /\ fallback = <<>> /\ primaryOutcome = NotRun
    /\ fallbackOutcome = NotRun /\ result = <<>> /\ propagated = FALSE
    /\ remoteCalls = 0 /\ fallbackCalls = 0 /\ written = <<>> /\ calls = 0 /\ log = <<>>

SanNext ==
    \/ DerivePrimary /\ UNCHANGED <<orchVars, promptVars>>
    \/ DeriveFallback /\ UNCHANGED <<orchVars, promptVars>>
    \/ DeriveOldPrimary /\ UNCHANGED <<orchVars, promptVars>>
    \/ DeriveOldFallback /\ UNCHANGED <<orchVars, promptVars>>

SanSpecInit == OrchIdle /\ SanInit /\ PromptIdle
SanSpec == SanSpecInit /\ [][SanNext]_vars

PromptNext ==
    \/ BuildPrompt /\ UNCHANGED <<orchVars, sanVars>>
    \/ OldBuildPrompt /\ UNCHANGED <<orchVars, sanVars>>
    \/ DrawAccent /\ UNCHANGED <<orchVars, sanVars>>

PromptSpecInit == OrchIdle /\ SanIdle /\ PromptInit
PromptSpec == PromptSpecInit /\ [][PromptNext]_vars

(***************************************************************************)
(* Claims about the fallback chain, checked under Spec                     *)
(***************************************************************************)
Finished == pc = "done"
InNew == module = "image_generator"
FallbackFailures == {"draw_fails", "save_fails", "encode_fails", "fetch_fails"}

\* C1: every call of generate_survey_image, of either module and whatever the remote
\* call and the fallback renderer do, ends by returning a tuple of four fields
\* (image, filename, base64 payload, status message); no exception reaches the caller.
C1_AlwaysReturnsResult ==
    /\ ~propagated
    /\ Finished => /\ Len(result) = 4
                   /\ result[1] = None \/ Len(result[1]) = 1
                   /\ result[2] = None \/ Len(result[2]) = 1
                   /\ result[3] = None \/ Len(result[3]) = 1
                   /\ result[4] \in STRING

\* C1 witness: a call returned after the remote call raised and the fallback
\* renderer raised while writing to disk.
C1_Witness ==
    /\ Finished /\ InNew
    /\ primaryOutcome[1] = "raises"
    /\ fallbackOutcome[1] = "save_fails"
    /\ Len(result) = 4

\* C2: with the remote client unavailable, generate_survey_image makes no remote
\* call and goes from the start straight to the fallback renderer; when the fallback
\* succeeds and no save_filename was supplied, the result has an image, a filename
\* beginning with fallback_ and the status message of the fallback.
C2_UnavailableGoesToFallback ==
    (InNew /\ calls > 0 /\ ~(GEMINI_AVAILABLE /\ client # "none")) =>
        /\ pc \in {"fallback", "done"}
        /\ remoteCalls = 0
        /\ primary = <<>> /\ primaryOutcome = NotRun
        /\ Finished => fallbackCalls = 1
        /\ (Finished /\ fallbackOutcome[1] = "ok" /\ request.save_filename = None) =>
              /\ result[1] # None
              /\ StartsWith(result[2][1], FallbackPrefix)
              /\ result[4] = FallbackSuccess

\* C2 witness: no client, no save_filename, the fallback succeeded.
C2_Witness ==
    /\ Finished /\ InNew /\ client = "none" /\ ~GEMINI_AVAILABLE
    /\ request.save_filename = None
    /\ fallbackOutcome[1] = "ok"
    /\ result[1] # None

\* the filename matches survey_image_{sanitizedName}_{timestamp}.png for a second
\* the clock showed during the run
MatchesSurveyImagePattern(fn, survey_name) ==
    \E t \in 58..now :
        fn = SurveyImagePrefix \o primary_component(survey_name) \o <<"_">>
                \o strftime(t) \o DotPng

C4_OneRemoteCallThenOneFallback ==
    InNew =>
        /\ remoteCalls <= 1
        /\ fallbackCalls <= 1
        /\ (primaryOutcome[1] \notin {"none", "ok"}) =>
              /\ ~propagated
              /\ pc \in {"fallback", "done"}
              /\ pc = "fallback" => fallbackCalls = 0
              /\ Finished => /\ fallbackCalls = 1
                             /\ fallback # <<>>
                             /\ result = fallback

\* C4 witness: the image could not be saved, the fallback renderer ran once and
\* its result was returned.
C4_Witness ==
    /\ Finished /\ InNew
    /\ remoteCalls = 1
    /\ primaryOutcome[1] = "save_fails"
    /\ fallbackCalls = 1
    /\ result = fallback /\ result[1] # None

\* the message carries the description: it is the description behind one of the
\* prefixes the handlers put before str(e)
MessageContains(message, description) ==
    \E prefix \in {"", "Gemini API error: ", "Image generation failed: "} :
        message = prefix \o description

\* C5: when the remote call raises and the fallback renderer raises too, the result
\* has no image, no filename and no base64 payload, and its status message is
\* non-empty and contains the description of the underlying error.
C5_TotalFailureCarriesMessage ==
    (Finished /\ remoteCalls = 1 /\ primaryOutcome[1] = "raises"
        /\ fallbackOutcome[1] \in FallbackFailures) =>
        /\ result[1] = None /\ result[2] = None /\ result[3] = None
        /\ result[4] # ""
        /\ \/ MessageContains(result[4], fallbackOutcome[2])
           \/ MessageContains(result[4], primaryOutcome[2])

\* two returned calls of the same module that derived their filename and
\* succeeded through the same tier
SameTierDerived(a, b) ==
    /\ a.module = b.module
    /\ a.tier = b.tier

\* C6 as stated: two calls that derive their filename and succeed through the same
\* tier obtain distinct filenames, also with the same survey name within the same
\* clock second.
C6_DerivedFilenamesDistinct ==
    \A i, j \in 1..Len(log) :
        (i < j /\ SameTierDerived(log[i], log[j])) => log[i].filename # log[j].filename

\* C6 amended: two calls that derive their filename and succeed through the same
\* tier obtain distinct filenames exactly when their sanitized survey names differ
\* or their timestamps, taken to the second, differ; with the same sanitized name
\* within the same clock second both obtain the same filename and the file of the
\* earlier call is overwritten by the later one.
C6_DistinctUnlessSameNameAndSecond ==
    \A i, j \in 1..Len(log) :
        (i < j /\ SameTierDerived(log[i], log[j])) =>
            /\ (log[i].filename = log[j].filename)
                  <=> (log[i].component = log[j].component
                       /\ log[i].timestamp = log[j].timestamp)
            /\ (log[i].filename = log[j].filename /\ j = Len(log) /\ Finished
                    /\ result[2] = Some(log[j].filename)) =>
                  LET f == IF log[j].module = "image_generator"
                           THEN full_image_path(log[j].filename)
                           ELSE relative_to_cwd(log[j].filename)
                  IN  <<f, log[j].tier>> \in Range(written)

\* C6 witness: two fallback images of image_generator for the same sanitized name
\* in the same second, under one filename.
C6_Witness ==
    /\ Finished
    /\ Len(log) = 2
    /\ SameTierDerived(log[1], log[2])
    /\ log[1].module = "image_generator" /\ log[1].tier = "fallback"
    /\ log[1].filename = log[2].filename

\* the tier whose tuple image_generator.generate_survey_image returned
ReturningTier == IF fallbackCalls = 0 THEN "primary" ELSE "fallback"
AllPresent == result[1] # None /\ result[2] # None /\ result[3] # None
AllAbsent == result[1] = None /\ result[2] = None /\ result[3] = None
SuccessMessages == {GeminiSuccess, FallbackSuccess}
\* the file of that name directly under static/images/ of the working directory
UnderStaticImages(name) ==
    Cwd \o <<"/">> \o SubSeq(StaticImages, 1, Len(StaticImages) - 1) \o <<"/">> \o name

\* C11: in every result image_generator.generate_survey_image returns, image, filename
\* and base64 payload are all present or all absent; they are present exactly when
\* the status message is one of the two success messages; and whenever they are
\* present, the tier whose result is returned has written, during that call, a file
\* with exactly the returned filename under static/images/.
C11_ResultFieldsAgreeAndFileWritten ==
    (InNew /\ Finished) =>
        /\ AllPresent \/ AllAbsent
        /\ AllPresent <=> result[4] \in SuccessMessages
        /\ AllPresent =>
              <<UnderStaticImages(result[2][1]), ReturningTier>> \in Range(written)

\* C11, without the place of the file: the fields agree with the message, and the
\* returning tier has written the file at os.path.join(output_dir, filename).
C11_ResultFieldsAgreeAndFileJoined ==
    (InNew /\ Finished) =>
        /\ AllPresent \/ AllAbsent
        /\ AllPresent <=> result[4] \in SuccessMessages
        /\ AllPresent =>
              <<full_image_path(result[2][1]), ReturningTier>> \in Range(written)

(***************************************************************************)
(* Claim about sanitization, checked under SanSpec                         *)
(***************************************************************************)
\* the survey name with every character other than alphanumerics, space, hyphen
\* and underscore removed, trailing whitespace trimmed and every remaining space
\* replaced by an underscore
RECURSIVE KeepAllowed(_)
KeepAllowed(s) ==
    IF s = <<>> THEN <<>>
    ELSE IF isalnum(Head(s)) \/ Head(s) \in {" ", "-", "_"}
         THEN <<Head(s)>> \o KeepAllowed(Tail(s))
         ELSE KeepAllowed(Tail(s))
RECURSIVE TrimTrailing(_)
TrimTrailing(s) ==
    IF s = <<>> THEN <<>>
    ELSE IF s[Len(s)] \in Whitespace THEN TrimTrailing(SubSeq(s, 1, Len(s) - 1)) ELSE s
Sanitized(s) ==
    LET kept == TrimTrailing(KeepAllowed(s))
    IN  [i \in 1..Len(kept) |-> IF kept[i] = " " THEN "_" ELSE kept[i]]

IsSanitizedOf(component, survey_name) ==
    /\ component = Sanitized(survey_name)
    /\ \A i \in 1..Len(component) : isalnum(component[i]) \/ component[i] \in {"-", "_"}

\* C7: for every survey name, the filename component derived by the primary
\* generator and by the fallback renderer, of either module, is the name with every
\* character other than alphanumerics, space, hyphen and underscore removed, trailing
\* whitespace trimmed and every remaining space replaced by an underscore; it holds
\* only alphanumerics, hyphens and underscores ("Heart Study: 2025!" gives
\* "Heart_Study_2025").
C7_ComponentIsSanitized ==
    /\ san_out.primary # None => IsSanitizedOf(san_out.primary[1], san_in)
    /\ san_out.fallback # None => IsSanitizedOf(san_out.fallback[1], san_in)
    /\ san_out.old_primary # None => IsSanitizedOf(san_out.old_primary[1], san_in)
    /\ san_out.old_fallback # None => IsSanitizedOf(san_out.old_fallback[1], san_in)

\* C7, for image_generator alone: the statement holds of both its generators.
C7_NewComponentIsSanitized ==
    /\ san_out.primary # None => IsSanitizedOf(san_out.primary[1], san_in)
    /\ san_out.fallback # None => IsSanitizedOf(san_out.fallback[1], san_in)
    /\ (san_in = HeartStudy /\ san_out.primary # None) =>
          san_out.primary[1] = <<"H", "e", "a", "r", "t", "_", "S", "t", "u", "d", "y", "_",
                                 "2", "0", "2", "5">>

(***************************************************************************)
(* Claims about the prompt, checked under PromptSpec                       *)
(***************************************************************************)
Built == "new" \in p_out.done
OldBuilt == "old" \in p_out.done
Drawn == "accent" \in p_out.done

\* the text registered for a key of specialty_elements
Registered(key) ==
    specialty_elements[CHOOSE i \in 1..Len(specialty_elements) :
                           specialty_elements[i][1] = key][2]
FoldedKey == lower(p_args.medical_specialty)
KnownKey == FoldedKey \in DictKeys(specialty_elements)
GeneralAccent == <<"General Medical", "none">>

\* C8: specialty lookup is total, ignores case and defaults to general: the prompt of
\* construct_image_prompt contains the visual-elements text registered for the
\* case-folded key when it is a known key and the text of general otherwise, and the
\* fallback renderer draws the accent of the same case-folded key, the general
\* branch for every unknown key.
C8_SpecialtyLookupTotal ==
    /\ Built =>
          /\ Contains(p_out.new, Registered(IF KnownKey THEN FoldedKey ELSE K_general))
          /\ \A k \in DictKeys(specialty_elements) :
                Contains(p_out.new, Registered(k))
                    => k = (IF KnownKey THEN FoldedKey ELSE K_general)
    /\ Drawn =>
          /\ Len(p_out.accent) = 2
          /\ p_out.accent = fallback_accent(FoldedKey)
          /\ (p_out.accent = GeneralAccent) <=> (~KnownKey \/ FoldedKey = K_general)
    /\ (Built /\ Drawn) =>
          (Contains(p_out.new, Registered(K_general)) <=> p_out.accent = GeneralAccent)

\* C8 witness: a known key in capitals, both lookups done.
C8_Witness ==
    /\ Built /\ Drawn
    /\ p_args.medical_specialty # FoldedKey
    /\ FoldedKey = K_emergency_medicine
    /\ p_out.accent[1] = "Urgent Care"

\* the prompt with its text block taken out: what is before and after it
WithoutTextBlock(p, block) ==
    {<<SubSeq(p, 1, i), SubSeq(p, i + Len(block) + 1, Len(p))>> :
        i \in {j \in 0..(Len(p) - Len(block)) : SubSeq(p, j + 1, j + Len(block)) = block}}
TextOverlay(survey_name) == <<HeadlineInstruction>> \o survey_name \o <<SubtitleInstruction, "\n">>

IncludeTextDecides(p, other) ==
    /\ p_args.include_text =>
          /\ Contains(p, TextOverlay(p_args.survey_name))
          /\ ~Contains(p, <<NoTextDirective>>)
          /\ WithoutTextBlock(p, TextOverlay(p_args.survey_name))
                = WithoutTextBlock(other, <<NoTextDirective>>)
    /\ ~p_args.include_text =>
          /\ ~Contains(p, <<HeadlineInstruction>>)
          /\ ~Contains(p, <<SubtitleInstruction>>)
          /\ Contains(p, <<NoTextDirective>>)
          /\ WithoutTextBlock(p, <<NoTextDirective>>)
                = WithoutTextBlock(other, TextOverlay(p_args.survey_name))

\* C9: construct_image_prompt, of either module, appends the text-overlay section
\* (headline, subtitle, call to action) if and only if include_text is true; with
\* include_text false the prompt holds no headline or subtitle instruction and holds
\* the no-text directive instead, and the rest of the prompt is that of the prompt
\* with include_text true.
C9_TextBlockIffIncludeText ==
    /\ Built =>
          IncludeTextDecides(p_out.new,
              construct_image_prompt(p_args.survey_name, p_args.medical_specialty,
                  p_args.tone, p_args.image_style, ~p_args.include_text))
    /\ OldBuilt =>
          IncludeTextDecides(p_out.old,
              old_construct_image_prompt(p_args.survey_name, p_args.medical_specialty,
                  p_args.tone, p_args.image_style, ~p_args.include_text))

\* C9, for image_generator alone: the statement holds of its construct_image_prompt.
C9_NewTextBlockIffIncludeText ==
    Built =>
        IncludeTextDecides(p_out.new,
            construct_image_prompt(p_args.survey_name, p_args.medical_specialty,
                p_args.tone, p_args.image_style, ~p_args.include_text))

\* text with every {medical_specialty} in it replaced by the specialty
RECURSIVE Naming(_, _)
Naming(text, specialty) ==
    IF text = <<>> THEN <<>>
    ELSE IF StartsWith(text, Placeholder)
         THEN specialty \o Naming(SubSeq(text, Len(Placeholder) + 1, Len(text)), specialty)
         ELSE <<Head(text)>> \o Naming(Tail(text), specialty)

\* C10: the prompt of construct_image_prompt is header, specialty-elements line,
\* style block, text block, composition and technical footer and closing directive,
\* in that order, and the closing directive, like every section that refers to the
\* specialty (the selected style block and the composition footer among them), names
\* the specialty the caller passed.
C10_SectionsNameTheSpecialty ==
    Built =>
        p_out.new =
            strip(header_block(p_args.survey_name, p_args.medical_specialty, p_args.tone,
                               p_args.image_style)
                  \o specialty_line(p_args.medical_specialty)
                  \o Naming(style_block(p_args.image_style), p_args.medical_specialty)
                  \o text_block(p_args.survey_name, p_args.include_text)
                  \o Naming(composition_footer, p_args.medical_specialty)
                  \o Naming(closing_directive, p_args.medical_specialty))

=============================================================================
